---------------------------- MODULE Spec2Model ----------------------------
(***************************************************************************)
(* Model of engine/numerics.py: erf, cdf, cdf_table and the two legacy     *)
(* series unstable_cdf and unstable_cdf2.                                  *)
(*                                                                         *)
(* Real numbers.  TLC has 32-bit integers only, so a float is modelled as  *)
(* a fixed-point integer counting units of 10^-8 (Scale): 1.26551223 is    *)
(* 126551223.  Products and quotients are rounded to the nearest unit.     *)
(* The values of cdf_table need 16 decimals and are kept as two limbs      *)
(* <<hi, lo>> of base 10^8, counting units of 10^-16.                      *)
(*                                                                         *)
(* Scalar or array.  An argument or result is a record                     *)
(* [scalar |-> BOOLEAN, data |-> sequence]: scalar is TRUE when len() of   *)
(* the Python object raises, and data holds its elements (one for a        *)
(* scalar), which is the form the functions themselves convert to.         *)
(***************************************************************************)
EXTENDS Integers, Sequences, FiniteSets, TLC

VARIABLES
  pc,       \* "idle", or the function that has run / is running
  args,     \* the arguments of the current call
  ret,      \* what the call returned (or raised)
  x, y,     \* cdf_table: the table data the call built
  interp,   \* cdf_table: what interpolate1d returned, before clamping
  n,        \* unstable_cdf, unstable_cdf2: loop variable
  sum,      \* unstable_cdf, unstable_cdf2: running sum
  sign,     \* unstable_cdf: (-1)^n according to the source comment
  fact,     \* unstable_cdf: n! according to the source comment
  terms     \* unstable_cdf, unstable_cdf2: the terms added so far, as fractions

vars == <<pc, args, ret, x, y, interp, n, sum, sign, fact, terms>>

----------------------------------------------------------------------------
(* Bounds of the model *)

\* longest array argument
MaxLen == 2
\* erf is called on k/2 for k in -ErfSpan..ErfSpan
ErfSpan == 6
\* cdf is called on integers x in -XSpan..XSpan
XSpan == 2
\* cdf is called with mu in 0..MuMax
MuMax == 1
\* cdf is called with sigma in 1..SigmaMax
SigmaMax == 2
\* cdf_table is called on multiples of ZStep hundredths, up to ZCount of them
\* on each side of 0, and on the two ends of the table
ZStep == 53
ZCount == 10
\* the legacy series are called on integers z in -SeriesSpan..SeriesSpan
SeriesSpan == 2

----------------------------------------------------------------------------
(* Fixed-point arithmetic: the float operations of the source *)

Scale == 10^8
Half == 10^4

Abs(a) == IF a < 0 THEN -a ELSE a
Sgn(a) == IF a < 0 THEN -1 ELSE 1

\* a * b for a, b >= 0, rounded to nearest, through 4-digit halves so that no
\* intermediate product leaves 32 bits
FxMulU(a, b) ==
  LET a1 == a \div Half
      a0 == a % Half
      b1 == b \div Half
      b0 == b % Half
      mid == a1 * b0 + a0 * b1
      low == a0 * b0 + (Scale \div 2)
  IN  a1 * b1 + (mid + low \div Half) \div Half

FxMul(a, b) == Sgn(a) * Sgn(b) * FxMulU(Abs(a), Abs(b))

\* floor and remainder of (q * b + r) * m1 * m2 * ... / b, one small factor at a time
RECURSIVE ScaleDiv(_, _, _, _)
ScaleDiv(q, r, b, fs) ==
  IF fs = <<>> THEN <<q, r>>
  ELSE LET rm == r * Head(fs)
       IN  ScaleDiv(q * Head(fs) + rm \div b, rm % b, b, Tail(fs))

\* the factors of by: by = 10^8 = (2 * 5)^8
RECURSIVE Factors(_)
Factors(by) ==
  IF by = 1 THEN <<>>
  ELSE IF by % 2 = 0 THEN <<2>> \o Factors(by \div 2)
  ELSE IF by % 5 = 0 THEN <<5>> \o Factors(by \div 5)
  ELSE <<by>>

\* a * by / b for a >= 0, b > 0, rounded to nearest
MulDivU(a, by, b) ==
  LET qr == ScaleDiv(a \div b, a % b, b, Factors(by))
  IN  IF 2 * qr[2] >= b THEN qr[1] + 1 ELSE qr[1]

\* a / b
FxDiv(a, b) == Sgn(a) * Sgn(b) * MulDivU(Abs(a), Scale, Abs(b))

\* numpy.exp: e is halved until |e| <= 1/2, there the Taylor series is summed
\* until its terms vanish, and the result is squared back
RECURSIVE ExpSeries(_, _, _)
ExpSeries(e, term, k) ==
  IF term = 0 THEN 0
  ELSE term + ExpSeries(e, Sgn(term) * Sgn(e) * (FxMulU(Abs(term), Abs(e)) \div k), k + 1)

RECURSIVE FxExp(_)
FxExp(e) ==
  IF Abs(e) > Scale \div 2
  THEN LET h == FxExp(e \div 2) IN FxMul(h, h)
  ELSE ExpSeries(e, Scale, 1)

\* numpy.log for a > 0: ln a = 2 artanh u, u = (a - 1) / (a + 1), the series
\* u + u^3/3 + u^5/5 + ... summed until its terms vanish
RECURSIVE LogSeries(_, _, _)
LogSeries(u2, pow, k) ==
  IF pow \div k = 0 THEN 0
  ELSE pow \div k + LogSeries(u2, FxMul(pow, u2), k + 2)

FxLog(a) ==
  LET u == FxDiv(a - Scale, a + Scale)
  IN  2 * Sgn(u) * LogSeries(FxMul(u, u), Abs(u), 1)

\* numpy.sqrt(2) and numpy.sqrt(numpy.pi)
Sqrt2 == 141421356
SqrtPi == 177245385

----------------------------------------------------------------------------
(* Scalars and arrays *)

Scalar(v) == [scalar |-> TRUE, data |-> <<v>>]
Array(s) == [scalar |-> FALSE, data |-> s]

\* all sequences over S of length 0..k
RECURSIVE SeqsUpTo(_, _)
SeqsUpTo(S, k) ==
  IF k = 0 THEN {<<>>}
  ELSE LET shorter == SeqsUpTo(S, k - 1)
       IN  shorter \cup {Append(s, e) : s \in {t \in shorter : Len(t) = k - 1}, e \in S}

Inputs(S) == {Scalar(v) : v \in S} \cup {Array(s) : s \in SeqsUpTo(S, MaxLen)}

\* "Input check": len(z) raises for a scalar, which is then wrapped as [z];
\* either way z becomes an array
InputCheck(z) == [scalar |-> z.scalar, z |-> z.data]

\* mutant: a result of length 1 is unwrapped whatever the input was
UnwrapByLength(scalar, r) == IF Len(r) = 1 THEN Scalar(r[1]) ELSE Array(r)

\* "if scalar: return r[0] else: return r"
Unwrap(scalar, r) == IF scalar THEN Scalar(r[1]) ELSE Array(r)

----------------------------------------------------------------------------
(* erf *)

\* mutant: the first coefficient 3e-8 lower, which makes the exponent 0 at z = 0
CoefExactAtZero ==
  << 100002365, 37409196, 9678418, -18628806, 27886807,
     -113520398, 148851587, -82215223, 17087277 >>

\* the constant of the exponent and the Horner coefficients, outermost first
ErfConst == 126551223
Coef ==
  << 100002368, 37409196, 9678418, -18628806, 27886807,
     -113520398, 148851587, -82215223, 17087277 >>

\* c[i] + t * (c[i+1] + t * (... + t * (c[9])))
RECURSIVE Horner(_, _)
Horner(t, i) ==
  IF i = Len(Coef) THEN Coef[i]
  ELSE Coef[i] + FxMul(t, Horner(t, i + 1))

\* t = 1.0 / (1.0 + 0.5 * numpy.abs(z))
ErfT(z) == FxDiv(Scale, Scale + FxMul(Scale \div 2, Abs(z)))

\* the argument of numpy.exp
ErfExponent(z) == -FxMul(z, z) - ErfConst + FxMul(ErfT(z), Horner(ErfT(z), 1))

\* ans = 1 - t * numpy.exp(...), one element
ErfAns(z) == Scale - FxMul(ErfT(z), FxExp(ErfExponent(z)))

\* mutant: the mask is never set
ErfNegNever(z) == FALSE

\* neg = (z < 0.0), one element
ErfNeg(z) == z < 0

erf(zin) ==
  LET chk == InputCheck(zin)
      z == chk.z
      ans == [i \in DOMAIN z |-> ErfAns(z[i])]
      neg == [i \in DOMAIN z |-> ErfNeg(z[i])]
      flipped == [i \in DOMAIN z |-> IF neg[i] THEN -ans[i] ELSE ans[i]]
  IN  Unwrap(chk.scalar, flipped)

----------------------------------------------------------------------------
(* cdf *)

NoValue == [scalar |-> TRUE, data |-> <<>>]

\* numpy broadcasting keeps the shape: v with its elements replaced by d
WithData(v, d) == [scalar |-> v.scalar, data |-> d]

\* numpy.log(x), element by element
LogOf(xin) == WithData(xin, [i \in DOMAIN xin.data |-> FxLog(xin.data[i])])

\* The result is a record: raised is the exception that ended the call ("" for
\* none), value what it returned, calls the numeric work done on x in order,
\* and depth the number of nested calls of cdf below this one.
\* mutant: the assertion is missing
KindUnchecked(kind) == TRUE

\* assert kind in ['normal', 'lognormal'], msg
KindOK(kind) == kind \in {"normal", "lognormal"}

\* mutant: the inner call leaves mu and sigma at their defaults
InnerArgsDefaults(xin, mu, sigma) ==
  [x |-> LogOf(xin), mu |-> 0, sigma |-> Scale, kind |-> "normal"]

\* the arguments of the inner call: cdf(numpy.log(x), mu=mu, sigma=sigma, kind='normal')
InnerArgs(xin, mu, sigma) ==
  [x |-> LogOf(xin), mu |-> mu, sigma |-> sigma, kind |-> "normal"]

RECURSIVE cdf(_, _, _, _)
cdf(xin, mu, sigma, kind) ==
  IF ~KindOK(kind)
  THEN [raised |-> "AssertionError", value |-> NoValue, calls |-> <<>>, depth |-> 0]
  ELSE IF kind = "lognormal"
  THEN LET a == InnerArgs(xin, mu, sigma)
           inner == cdf(a.x, a.mu, a.sigma, a.kind)
       IN  [inner EXCEPT !.calls = <<"numpy.log">> \o @, !.depth = @ + 1]
  ELSE LET arg == WithData(xin, [i \in DOMAIN xin.data |->
                                   FxDiv(xin.data[i] - mu, FxMul(sigma, Sqrt2))])
           e == erf(arg)
           res == WithData(e, [i \in DOMAIN e.data |->
                                 FxDiv(Scale + e.data[i], 2 * Scale)])
       IN  [raised |-> "", value |-> res, calls |-> <<"arg", "erf">>, depth |-> 0]

----------------------------------------------------------------------------
(* cdf_table *)

\* mutant: one literal of x mistyped, -1.04 for -1.40
TableXTypo == [i \in 1..100 |-> IF i = 37 THEN -104 ELSE 10 * i - 510]

\* "Table data": x in hundredths
TableX ==
  <<
    -500, -490, -480, -470, -460, -450, -440, -430, -420, -410,
    -400, -390, -380, -370, -360, -350, -340, -330, -320, -310,
    -300, -290, -280, -270, -260, -250, -240, -230, -220, -210,
    -200, -190, -180, -170, -160, -150, -140, -130, -120, -110,
    -100, -90, -80, -70, -60, -50, -40, -30, -20, -10,
    0, 10, 20, 30, 40, 50, 60, 70, 80, 90,
    100, 110, 120, 130, 140, 150, 160, 170, 180, 190,
    200, 210, 220, 230, 240, 250, 260, 270, 280, 290,
    300, 310, 320, 330, 340, 350, 360, 370, 380, 390,
    400, 410, 420, 430, 440, 450, 460, 470, 480, 490
  >>

\* "Table data": y, each literal m.mmmmmmmme-k written <<mmmmmmmmm, k + 8>>,
\* that is mmmmmmmmm * 10^-(k + 8)
TableY ==
  <<
    <<286651572, 15>>, <<479183277, 15>>, <<793328152, 15>>, <<130080745, 14>>,
    <<211245470, 14>>, <<339767312, 14>>, <<541254391, 14>>, <<853990547, 14>>,
    <<133457490, 13>>, <<206575069, 13>>, <<316712418, 13>>, <<480963440, 13>>,
    <<723480439, 13>>, <<107799733, 12>>, <<159108590, 12>>, <<232629079, 12>>,
    <<336929266, 12>>, <<483424142, 12>>, <<687137938, 12>>, <<967603213, 12>>,
    <<134989803, 11>>, <<186581330, 11>>, <<255513033, 11>>, <<346697380, 11>>,
    <<466118802, 11>>, <<620966533, 11>>, <<819753592, 11>>, <<107241100, 10>>,
    <<139034475, 10>>, <<178644206, 10>>, <<227501319, 10>>, <<287165598, 10>>,
    <<359303191, 10>>, <<445654628, 10>>, <<547992917, 10>>, <<668072013, 10>>,
    <<807566592, 10>>, <<968004846, 10>>, <<115069670, 9>>, <<135666061, 9>>,
    <<158655254, 9>>, <<184060125, 9>>, <<211855399, 9>>, <<241963652, 9>>,
    <<274253118, 9>>, <<308537539, 9>>, <<344578258, 9>>, <<382088578, 9>>,
    <<420740291, 9>>, <<460172163, 9>>, <<500000000, 9>>, <<539827837, 9>>,
    <<579259709, 9>>, <<617911422, 9>>, <<655421742, 9>>, <<691462461, 9>>,
    <<725746882, 9>>, <<758036348, 9>>, <<788144601, 9>>, <<815939875, 9>>,
    <<841344746, 9>>, <<864333939, 9>>, <<884930330, 9>>, <<903199515, 9>>,
    <<919243341, 9>>, <<933192799, 9>>, <<945200708, 9>>, <<955434537, 9>>,
    <<964069681, 9>>, <<971283440, 9>>, <<977249868, 9>>, <<982135579, 9>>,
    <<986096552, 9>>, <<989275890, 9>>, <<991802464, 9>>, <<993790335, 9>>,
    <<995338812, 9>>, <<996533026, 9>>, <<997444870, 9>>, <<998134187, 9>>,
    <<998650102, 9>>, <<999032397, 9>>, <<999312862, 9>>, <<999516576, 9>>,
    <<999663071, 9>>, <<999767371, 9>>, <<999840891, 9>>, <<999892200, 9>>,
    <<999927652, 9>>, <<999951904, 9>>, <<999968329, 9>>, <<999979342, 9>>,
    <<999986654, 9>>, <<999991460, 9>>, <<999994587, 9>>, <<999996602, 9>>,
    <<999997888, 9>>, <<999998699, 9>>, <<999999207, 9>>, <<999999521, 9>>
  >>

\* Two-limb numbers <<hi, lo>> = hi * 10^8 + lo units of 10^-16, 0 <= lo < 10^8
Norm16(hi, lo) == <<hi + lo \div Scale, lo % Scale>>
Zero16 == <<0, 0>>
One16 == <<Scale, 0>>
NaN16 == <<-1, -1>>
Add16(a, b) == Norm16(a[1] + b[1], a[2] + b[2])
Mul16(a, k) == Norm16(a[1] * k, a[2] * k)
Div16(a, d) == <<a[1] \div d, ((a[1] % d) * Scale + a[2]) \div d>>
LE16(a, b) == a[1] < b[1] \/ (a[1] = b[1] /\ a[2] <= b[2])

\* the float a literal of y denotes
YVal(lit) ==
  LET j == 16 - lit[2]
  IN  <<lit[1] \div 10^(8 - j), (lit[1] % 10^(8 - j)) * 10^j>>

\* The external routine interpolate1d(x, y, z): piecewise linear inside
\* [x[0], x[-1]]; outside, its result is not defined here and out[i] stands for
\* whatever it returns for element i.
Linear(xs, ys, z) ==
  LET i == CHOOSE k \in 1..(Len(xs) - 1) :
             xs[k] <= z /\ (z < xs[k + 1] \/ k = Len(xs) - 1)
  IN  Div16(Add16(Mul16(ys[i], xs[i + 1] - z), Mul16(ys[i + 1], z - xs[i])),
            xs[i + 1] - xs[i])

interpolate1d(xs, ys, z, out) ==
  [i \in DOMAIN z |->
     IF xs[1] <= z[i] /\ z[i] <= xs[Len(xs)] THEN Linear(xs, ys, z[i]) ELSE out[i]]

\* mutant: the lower clamp takes the boundary too (z <= x[0])
ClampLowInclusive(r, z, xs) ==
  [i \in DOMAIN r |-> IF z[i] <= xs[1] THEN Zero16 ELSE r[i]]

\* r[z < x[0]] = 0
ClampLow(r, z, xs) == [i \in DOMAIN r |-> IF z[i] < xs[1] THEN Zero16 ELSE r[i]]

\* mutant: the upper clamp is missing
ClampHighMissing(r, z, xs) == r

\* mutant: the upper clamp writes 0, as the lower one does
ClampHighZero(r, z, xs) ==
  [i \in DOMAIN r |-> IF z[i] > xs[Len(xs)] THEN Zero16 ELSE r[i]]

\* r[z > x[-1]] = 1
ClampHigh(r, z, xs) == [i \in DOMAIN r |-> IF z[i] > xs[Len(xs)] THEN One16 ELSE r[i]]

\* The result is a record: x, y the table the call built, interp what
\* interpolate1d returned, value what cdf_table returned.
cdf_table(zin, out) ==
  LET chk == InputCheck(zin)
      z == chk.z
      xs == TableX
      ys == TableY
      r == interpolate1d(xs, [i \in DOMAIN ys |-> YVal(ys[i])], z, out)
      r1 == ClampLow(r, z, xs)
      r2 == ClampHigh(r1, z, xs)
  IN  [x |-> xs, y |-> ys, interp |-> r, value |-> Unwrap(chk.scalar, r2)]

----------------------------------------------------------------------------
(* unstable_cdf, unstable_cdf2 *)

\* N = 10 in both functions
N == 10

\* The argument z is a float with an integer value.  A term is kept as the
\* fraction <<numerator, denominator>> the source divides, and rounded to
\* units of 10^-4 when it is added to sum.
SeriesScale == 10^4

RECURSIVE Pow(_, _)
Pow(b, e) == IF e = 0 THEN 1 ELSE b * Pow(b, e - 1)

Quot(f) == Sgn(f[1]) * Sgn(f[2]) * MulDivU(Abs(f[1]), SeriesScale, Abs(f[2]))

\* unstable_cdf: num = sign * (z ** exp); den = fact * exp, with exp = 2 * n + 1
Term1(z, k, sgn, fct) == <<sgn * Pow(z, 2 * k + 1), fct * (2 * k + 1)>>

\* unstable_cdf2: prod after "for i in range(n): k = i + 1; prod *= -(z * z / k)"
RECURSIVE InnerProd(_, _, _, _)
InnerProd(z, k, i, prod) ==
  IF i = k THEN prod
  ELSE InnerProd(z, k, i + 1, <<prod[1] * (0 - z * z), prod[2] * (i + 1)>>)

\* unstable_cdf2: den = 2 * n + 1; term = z * prod / den
Term2(z, k) ==
  LET prod == InnerProd(z, k, 0, <<1, 1>>)
  IN  <<z * prod[1], prod[2] * (2 * k + 1)>>

\* return 2 * sum / numpy.sqrt(numpy.pi)
SeriesResult(s) == Sgn(s) * MulDivU(2 * Abs(s), Scale, SqrtPi)

----------------------------------------------------------------------------
(* The calls *)

ErfGrid == {k * (Scale \div 2) : k \in -ErfSpan..ErfSpan}
XGrid == {k * Scale : k \in -XSpan..XSpan}
MuSet == {k * Scale : k \in 0..MuMax}
SigmaSet == {k * Scale : k \in 1..SigmaMax}
Kinds == {"normal", "lognormal", "bogus"}
ZGrid == {ZStep * k : k \in -ZCount..ZCount} \cup {TableX[1], TableX[Len(TableX)]}
SeriesGrid == -SeriesSpan..SeriesSpan
OutsideVals == {NaN16, Mul16(One16, 2)}

\* what interpolate1d may return for the elements of zs outside the table, one
\* choice per element (NaN16 stands at the elements inside, where it is unused)
RECURSIVE OutChoices(_)
OutChoices(zs) ==
  IF zs = <<>> THEN {<<>>}
  ELSE LET inside == TableX[1] <= Head(zs) /\ Head(zs) <= TableX[Len(TableX)]
       IN  {<<o>> \o rest : o \in (IF inside THEN {NaN16} ELSE OutsideVals),
                            rest \in OutChoices(Tail(zs))}

Returned(v) == [raised |-> "", value |-> v, calls |-> <<>>, depth |-> 0]
NoArgs == [z |-> NoValue]
NoRet == Returned(NoValue)

Init ==
  /\ pc = "idle"
  /\ args = NoArgs
  /\ ret = NoRet
  /\ x = <<>>
  /\ y = <<>>
  /\ interp = <<>>
  /\ n = 0
  /\ sum = 0
  /\ sign = 1
  /\ fact = 1
  /\ terms = <<>>

CallErf ==
  /\ pc = "idle"
  /\ \E z \in Inputs(ErfGrid) :
       /\ args' = [z |-> z]
       /\ ret' = Returned(erf(z))
  /\ pc' = "erf"
  /\ UNCHANGED <<x, y, interp, n, sum, sign, fact, terms>>

CallCdf ==
  /\ pc = "idle"
  /\ \E xin \in Inputs(XGrid), mu \in MuSet, sigma \in SigmaSet, kind \in Kinds :
       \* the caller passes x > 0 to the log-normal
       /\ kind = "lognormal" => \A i \in DOMAIN xin.data : xin.data[i] > 0
       /\ args' = [x |-> xin, mu |-> mu, sigma |-> sigma, kind |-> kind]
       /\ ret' = cdf(xin, mu, sigma, kind)
  /\ pc' = "cdf"
  /\ UNCHANGED <<x, y, interp, n, sum, sign, fact, terms>>

CallCdfTable ==
  /\ pc = "idle"
  /\ \E z \in Inputs(ZGrid) :
       \E out \in OutChoices(z.data) :
         LET res == cdf_table(z, out)
         IN  /\ args' = [z |-> z]
             /\ x' = res.x
             /\ y' = res.y
             /\ interp' = res.interp
             /\ ret' = Returned(res.value)
  /\ pc' = "cdf_table"
  /\ UNCHANGED <<n, sum, sign, fact, terms>>

CallUnstableCdf ==
  /\ pc = "idle"
  /\ \E z \in SeriesGrid : args' = [z |-> Scalar(z)]
  /\ pc' = "unstable_cdf"
  /\ n' = 0
  /\ sum' = 0
  /\ sign' = 1
  /\ fact' = 1
  /\ terms' = <<>>
  /\ UNCHANGED <<ret, x, y, interp>>

\* one pass of "for n in range(N)"
IterUnstableCdf ==
  /\ pc = "unstable_cdf"
  /\ n < N
  /\ LET term == Term1(args.z.data[1], n, sign, fact)
     IN  /\ sum' = sum + Quot(term)
         /\ terms' = Append(terms, term)
  /\ sign' = -sign
  /\ fact' = IF n > 0 THEN fact * n ELSE fact
  /\ n' = n + 1
  /\ UNCHANGED <<pc, args, ret, x, y, interp>>

ReturnUnstableCdf ==
  /\ pc = "unstable_cdf"
  /\ n = N
  /\ ret' = Returned(Scalar(SeriesResult(sum)))
  /\ pc' = "unstable_cdf_done"
  /\ UNCHANGED <<args, x, y, interp, n, sum, sign, fact, terms>>

CallUnstableCdf2 ==
  /\ pc = "idle"
  /\ \E z \in SeriesGrid : args' = [z |-> Scalar(z)]
  /\ pc' = "unstable_cdf2"
  /\ n' = 0
  /\ sum' = 0
  /\ terms' = <<>>
  /\ UNCHANGED <<ret, x, y, interp, sign, fact>>

\* one pass of "for n in range(N)"
IterUnstableCdf2 ==
  /\ pc = "unstable_cdf2"
  /\ n < N
  /\ LET term == Term2(args.z.data[1], n)
     IN  /\ sum' = sum + Quot(term)
         /\ terms' = Append(terms, term)
  /\ n' = n + 1
  /\ UNCHANGED <<pc, args, ret, x, y, interp, sign, fact>>

ReturnUnstableCdf2 ==
  /\ pc = "unstable_cdf2"
  /\ n = N
  /\ ret' = Returned(Scalar(SeriesResult(sum)))
  /\ pc' = "unstable_cdf2_done"
  /\ UNCHANGED <<args, x, y, interp, n, sum, sign, fact, terms>>

Return ==
  /\ pc \in {"erf", "cdf", "cdf_table", "unstable_cdf_done", "unstable_cdf2_done"}
  /\ pc' = "idle"
  /\ args' = NoArgs
  /\ ret' = NoRet
  /\ x' = <<>>
  /\ y' = <<>>
  /\ interp' = <<>>
  /\ n' = 0
  /\ sum' = 0
  /\ sign' = 1
  /\ fact' = 1
  /\ terms' = <<>>

Next ==
  \/ CallErf
  \/ CallCdf
  \/ CallCdfTable
  \/ CallUnstableCdf
  \/ IterUnstableCdf
  \/ ReturnUnstableCdf
  \/ CallUnstableCdf2
  \/ IterUnstableCdf2
  \/ ReturnUnstableCdf2
  \/ Return

Spec == Init /\ [][Next]_vars

----------------------------------------------------------------------------
(* Properties *)

\* the argument the call was made on, and the elements of argument and result
InArg == IF pc = "cdf" THEN args.x ELSE args.z
In == InArg.data
Out == ret.value.data

\* m.mmmmmmmm as a two-limb number, for a literal below 1
Lit16(m, k) == YVal(<<m, k>>)

\* C1: cdf_table returns exactly 0 for every element z < -5.00 and exactly 1 for
\* every element z > 4.90, whatever interpolate1d returned for it, and for every
\* element with -5.00 <= z <= 4.90 exactly what interpolate1d returned.
C1_ClampAfterInterpolation ==
  pc = "cdf_table" =>
    /\ DOMAIN Out = DOMAIN In
    /\ DOMAIN interp = DOMAIN In
    /\ \A i \in DOMAIN In :
         /\ In[i] < -500 => Out[i] = Zero16
         /\ In[i] > 490 => Out[i] = One16
         /\ (-500 <= In[i] /\ In[i] <= 490) => Out[i] = interp[i]

C1_Witness ==
  /\ pc = "cdf_table"
  /\ \E i, j \in DOMAIN In :
       /\ In[i] < -500 /\ interp[i] = Mul16(One16, 2) /\ Out[i] = Zero16
       /\ In[j] > 490 /\ interp[j] = NaN16 /\ Out[j] = One16

\* C2 (as stated): cdf_table(-5.00) is 0 and cdf_table(4.90) is the last y-value
\* 0.999999521.
C2_BoundaryValuesAsStated ==
  pc = "cdf_table" =>
    \A i \in DOMAIN In :
      /\ In[i] = -500 => Out[i] = Zero16
      /\ In[i] = 490 => Out[i] = Lit16(999999521, 9)

\* C2 (amended): no clamp is applied at either end of the table:
\* cdf_table(-5.00) is the first y-value 2.86651572e-07 and cdf_table(4.90) is
\* the last y-value 0.999999521.
C2_BoundaryValues ==
  pc = "cdf_table" =>
    \A i \in DOMAIN In :
      /\ In[i] = -500 => Out[i] = Lit16(286651572, 15)
      /\ In[i] = 490 => Out[i] = Lit16(999999521, 9)

C2_Witness ==
  /\ pc = "cdf_table"
  /\ ~InArg.scalar
  /\ In = <<-500, 490>>
  /\ Out = <<Lit16(286651572, 15), Lit16(999999521, 9)>>

\* the standard normal call cdf(0)
IsCdfOfZero ==
  /\ pc = "cdf"
  /\ args.x = Scalar(0)
  /\ args.mu = 0
  /\ args.sigma = Scale
  /\ args.kind = "normal"

\* C3 (as stated): erf(0) is 0 and cdf(0) is 0.5, the exponent being exactly 0 at
\* z = 0.
C3_ZeroExactAsStated ==
  /\ (pc = "erf" /\ args.z = Scalar(0)) => (ErfExponent(0) = 0 /\ ret.value = Scalar(0))
  /\ IsCdfOfZero => ret.value = Scalar(Scale \div 2)

\* C3 (amended): at z = 0 (t = 1) the exponent is 3e-8, not 0, so erf(0) is
\* 1 - exp(3e-8), about -3e-8: below 0 and within 1.2e-7 of it; and cdf(0) is
\* below 0.5 and within 1.2e-7 of it.
C3_ZeroNearlyExact ==
  /\ (pc = "erf" /\ args.z = Scalar(0)) =>
       /\ ErfT(0) = Scale
       /\ ErfExponent(0) = 3
       /\ ret.value.scalar
       /\ Out[1] < 0
       /\ Out[1] >= -12
  /\ IsCdfOfZero =>
       /\ ret.value.scalar
       /\ Out[1] < Scale \div 2
       /\ Out[1] >= Scale \div 2 - 12

C3_Witness == IsCdfOfZero /\ ret.raised = "" /\ Out[1] # Scale \div 2

\* C4: erf, cdf and cdf_table return a scalar for a scalar and, for a sequence
\* of length n (0 and 1 included), a sequence of length n.
C4_ShapePreserved ==
  (pc \in {"erf", "cdf", "cdf_table"} /\ ret.raised = "") =>
    /\ ret.value.scalar = InArg.scalar
    /\ Len(Out) = Len(In)

C4_Witness ==
  /\ pc = "cdf"
  /\ args.kind = "lognormal"
  /\ ~InArg.scalar
  /\ Len(In) = 1
  /\ ~ret.value.scalar
  /\ Len(Out) = 1

\* C5: cdf with a kind other than 'normal' and 'lognormal' ends in the
\* assertion's error with no numeric work done and nothing returned; with one
\* of the two kinds it never does.
C5_InvalidKindFailsFast ==
  pc = "cdf" =>
    /\ args.kind \notin {"normal", "lognormal"} =>
         /\ ret.raised = "AssertionError"
         /\ ret.calls = <<>>
         /\ ret.value = NoValue
    /\ args.kind \in {"normal", "lognormal"} => ret.raised = ""

C5_Witness ==
  /\ pc = "cdf"
  /\ args.kind = "bogus"
  /\ ret.raised = "AssertionError"
  /\ ret.calls = <<>>

\* C6: cdf(x, mu, sigma, 'lognormal') returns the value of
\* cdf(ln(x), mu, sigma, 'normal'), through one nested call and one use of ln.
C6_LognormalReduces ==
  (pc = "cdf" /\ args.kind = "lognormal") =>
    /\ ret.raised = ""
    /\ ret.value = cdf(LogOf(args.x), args.mu, args.sigma, "normal").value
    /\ ret.depth = 1
    /\ Cardinality({i \in DOMAIN ret.calls : ret.calls[i] = "numpy.log"}) = 1
    /\ ret.calls[1] = "numpy.log"

C6_Witness ==
  /\ pc = "cdf"
  /\ args.kind = "lognormal"
  /\ args.mu # 0
  /\ args.sigma # Scale
  /\ Len(In) = 2
  /\ In[1] # In[2]
  /\ Out[1] # Out[2]
  /\ ret.depth = 1

\* C7: cdf_table is non-decreasing: z1 < z2 implies
\* cdf_table(z1) <= cdf_table(z2), across the clamp boundaries too.
C7_TableMonotone ==
  pc = "cdf_table" =>
    \A i, j \in DOMAIN In : In[i] < In[j] => LE16(Out[i], Out[j])

C7_Witness ==
  /\ pc = "cdf_table"
  /\ \E i, j \in DOMAIN In :
       /\ In[i] < -500
       /\ In[j] = -500
       /\ Out[i] = Zero16
       /\ Out[j] # Zero16
       /\ LE16(Out[i], Out[j])

\* C8: the table of every call of cdf_table has 100 x-values and 100 y-values,
\* the x-values run from -5.00 to 4.90 in steps of 0.1, the y-values are
\* non-decreasing and lie in [0, 1], and it is the same table in every call.
C8_TableInvariant ==
  pc = "cdf_table" =>
    /\ Len(x) = 100
    /\ Len(y) = 100
    /\ x[1] = -500
    /\ x[100] = 490
    /\ \A i \in 1..99 : x[i + 1] - x[i] = 10
    /\ \A i \in 1..99 : LE16(YVal(y[i]), YVal(y[i + 1]))
    /\ \A i \in 1..100 : LE16(Zero16, YVal(y[i])) /\ LE16(YVal(y[i]), One16)
    /\ y = TableY

C8_Witness ==
  /\ pc = "cdf_table"
  /\ Len(x) = 100
  /\ Len(In) = 2
  /\ x[1] < In[1]
  /\ In[1] < In[2]
  /\ In[2] < x[100]

\* C9: erf is odd within 1e-6, and exactly so away from 0: each element's
\* result is the unsigned value of |z|, negated exactly when its own z < 0.
C9_ErfOdd ==
  pc = "erf" =>
    /\ \A i \in DOMAIN In :
         Out[i] = (IF In[i] < 0 THEN -1 ELSE 1) * ErfAns(Abs(In[i]))
    /\ \A i, j \in DOMAIN In :
         In[i] = -In[j] =>
           /\ Abs(Out[i] + Out[j]) <= 100
           /\ In[i] # 0 => Out[i] = -Out[j]

C9_Witness ==
  /\ pc = "erf"
  /\ Len(In) = 2
  /\ In[1] > 0
  /\ In[2] = -In[1]
  /\ Out[1] > 0
  /\ Out[2] = -Out[1]

\* n! and the fraction a term denotes, in lowest terms
RECURSIVE Factorial(_)
Factorial(k) == IF k = 0 THEN 1 ELSE k * Factorial(k - 1)

RECURSIVE GCD(_, _)
GCD(a, b) == IF b = 0 THEN a ELSE GCD(b, a % b)

Lowest(f) ==
  LET g == GCD(Abs(f[1]), Abs(f[2]))
  IN  <<(Sgn(f[2]) * f[1]) \div g, Abs(f[2]) \div g>>

\* C10: unstable_cdf adds 10 terms; when the term for n is computed, fact is n!
\* and sign is (-1)^n, so the term is (-1)^n z^(2n+1) / (n! (2n+1)) and equals
\* the n-th term of unstable_cdf2.
C10_SeriesTerms ==
  /\ pc = "unstable_cdf" =>
       /\ n < N => (fact = Factorial(n) /\ sign = Pow(-1, n))
       /\ \A k \in DOMAIN terms :
            /\ terms[k] =
                 <<Pow(-1, k - 1) * Pow(args.z.data[1], 2 * k - 1),
                   Factorial(k - 1) * (2 * k - 1)>>
            /\ Lowest(terms[k]) = Lowest(Term2(args.z.data[1], k - 1))
  /\ pc = "unstable_cdf_done" => Len(terms) = 10

============================================================================
